---------------------------- MODULE Spec2Model ----------------------------
(***************************************************************************)
(* A model of the neurods helper library (neurods/fmri.py, neurods/viz.py). *)
(*                                                                         *)
(* The library is a set of stateless functions over in-memory arrays.  The *)
(* state machine is one call of one of them: the call picks its arguments  *)
(* from bounded sets, runs the function as the source runs it and leaves    *)
(* the arguments and the outcome (the returned value, or the exception      *)
(* raised) in the state.  No function keeps anything between calls, so a    *)
(* call always starts from the initial state.  simple_convolution's         *)
(* for-loop is taken one iteration at a time.                               *)
(*                                                                         *)
(* Arrays are [shape, flat]: the shape tuple and the cells in C (row-major) *)
(* order.  Sequences are 1-based, so Python's x[i] is x[i + 1] here.        *)
(***************************************************************************)
EXTENDS Integers, Sequences, FiniteSets, TLC

VARIABLES pc,      \* "idle" | "loop" (inside simple_convolution's for) | "done"
          fn,      \* the function called last
          args,    \* its arguments
          ret,     \* its outcome: [raised, ...]
          data_,   \* simple_convolution: the padded data
          out,     \* simple_convolution: the preallocated output
          i        \* simple_convolution: the loop index

vars == <<pc, fn, args, ret, data_, out, i>>

-----------------------------------------------------------------------------
(* Bounds of the model *)

\* longest data and kernel handed to simple_convolution
MaxLen == 3
\* most rows (time points) and columns (conditions) of a design matrix
MaxRows == 3
MaxCols == 2
\* most columns of a mask (a mask has 1 or 2 rows)
MaxMaskCols == 2
\* find_squarish_dimensions is called with every n below (MaxRoot + 1)^2
MaxRoot == 6

\* sample values of data, kernels and volumes
DataVals == {1, 2}
BgVals == {0, 9}

-----------------------------------------------------------------------------
(* Sequences *)

RECURSIVE SumSeq(_)
SumSeq(s) == IF s = <<>> THEN 0 ELSE Head(s) + SumSeq(Tail(s))

Zeros(n) == [k \in 1..n |-> 0]

Reverse(s) == [k \in 1..Len(s) |-> s[Len(s) + 1 - k]]

SeqsUpTo(S, n) == UNION {[1..m -> S] : m \in 0..n}

\* np.sum(a * b) of two equally long 1-D arrays
SumProd(a, b) == SumSeq([k \in 1..Len(a) |-> a[k] * b[k]])

\* np.pad(data, (before, after), 'constant', constant_values=0)
Pad(data, before, after) == Zeros(before) \o data \o Zeros(after)

Min2(a, b) == IF a <= b THEN a ELSE b
Max2(a, b) == IF a >= b THEN a ELSE b

SetMin(S) == CHOOSE x \in S : \A y \in S : x <= y
SetMax(S) == CHOOSE x \in S : \A y \in S : x >= y
Range(s) == {s[k] : k \in DOMAIN s}

\* what a call that raised leaves in place of an array, and np.array([])
NoArray == [shape |-> <<>>, flat |-> <<>>]
Empty1D == [shape |-> <<0>>, flat |-> <<>>]

-----------------------------------------------------------------------------
(* fmri.py: unmask *)

\* the number of True cells among the first j cells of a mask
CountTrue(flat, j) == Cardinality({k \in 1..j : flat[k]})

\* the values assigned to the True cells from the last to the first
PlaceReverseOrder(flat, row, bg_value) ==
    [k \in 1..Len(flat) |->
        IF flat[k]
        THEN (IF Len(row) = 1 THEN row[1] ELSE row[Len(row) + 1 - CountTrue(flat, k)])
        ELSE bg_value]

\* br[mask] = row, for one volume: NumPy assigns the values to the True cells in
\* C order; a single value is broadcast to all of them.
Place(flat, row, bg_value) ==
    [k \in 1..Len(flat) |->
        IF flat[k]
        THEN (IF Len(row) = 1 THEN row[1] ELSE row[CountTrue(flat, k)])
        ELSE bg_value]

\* whether NumPy can assign `len` values to `cnt` True cells
Assignable(len, cnt) == len = cnt \/ len = 1

\* row r (0-based) of 2-D data
RowOf(data, r) == SubSeq(data.flat, r * data.shape[2] + 1, (r + 1) * data.shape[2])

RECURSIVE Concat(_)
Concat(ss) == IF ss = <<>> THEN <<>> ELSE Head(ss) \o Concat(Tail(ss))

\* unmask with the first test written np.ndim(data) <= 1: a scalar is placed
\* like a 1-D array of one value
unmaskScalarAs1D(data, mask, bg_value) ==
    LET cnt == CountTrue(mask.flat, Len(mask.flat))
    IN  IF Len(data.shape) <= 1
        THEN IF Assignable(Len(data.flat), cnt)
             THEN [raised |-> "none",
                   br |-> [shape |-> mask.shape,
                           flat |-> Place(mask.flat, data.flat, bg_value)]]
             ELSE [raised |-> "ValueError", br |-> NoArray]
        ELSE IF Len(data.shape) = 2
        THEN IF Assignable(data.shape[2], cnt)
             THEN [raised |-> "none",
                   br |-> [shape |-> <<data.shape[1]>> \o mask.shape,
                           flat |-> Concat([r \in 1..data.shape[1] |->
                                       Place(mask.flat, RowOf(data, r - 1), bg_value)])]]
             ELSE [raised |-> "ValueError", br |-> NoArray]
        ELSE [raised |-> "Exception", br |-> NoArray]

unmask(data, mask, bg_value) ==
    LET cnt == CountTrue(mask.flat, Len(mask.flat))
    IN  IF Len(data.shape) = 1
        THEN IF Assignable(data.shape[1], cnt)
             THEN [raised |-> "none",
                   br |-> [shape |-> mask.shape,
                           flat |-> Place(mask.flat, data.flat, bg_value)]]
             ELSE [raised |-> "ValueError", br |-> NoArray]
        ELSE IF Len(data.shape) = 2
        THEN IF Assignable(data.shape[2], cnt)
             THEN [raised |-> "none",
                   br |-> [shape |-> <<data.shape[1]>> \o mask.shape,
                           flat |-> Concat([r \in 1..data.shape[1] |->
                                       Place(mask.flat, RowOf(data, r - 1), bg_value)])]]
             ELSE [raised |-> "ValueError", br |-> NoArray]
        ELSE [raised |-> "Exception", br |-> NoArray]

\* volume[mask]: the cells of a volume where the mask is True, in C order
\* (the masking load_data applies, data[:, mask], one volume at a time)
Masked(flat, maskflat) ==
    LET idx == {k \in 1..Len(maskflat) : maskflat[k]}
    IN  [j \in 1..Cardinality(idx) |->
            flat[CHOOSE k \in idx : CountTrue(maskflat, k) = j]]

Masks == UNION {{[shape |-> <<r, c>>, flat |-> f] : f \in [1..(r * c) -> BOOLEAN]} :
                <<r, c>> \in {1, 2} \X (1..MaxMaskCols)}

Data0D == {[shape |-> <<>>, flat |-> <<v>>] : v \in DataVals}
Data1D == {[shape |-> <<Len(s)>>, flat |-> s] : s \in SeqsUpTo(DataVals, 2 * MaxMaskCols)}
Data2D == UNION {{[shape |-> <<n, m>>, flat |-> f] : f \in [1..(n * m) -> DataVals]} :
                 <<n, m>> \in {1, 2} \X (0..MaxMaskCols)}
Data3D == {[shape |-> <<1, 1, 1>>, flat |-> <<v>>] : v \in DataVals}

call_unmask ==
    /\ pc = "idle"
    /\ \E data \in Data0D \cup Data1D \cup Data2D \cup Data3D, mask \in Masks,
          bg_value \in BgVals :
          /\ fn' = "unmask"
          /\ args' = [data |-> data, mask |-> mask, bg_value |-> bg_value]
          /\ ret' = unmask(data, mask, bg_value)
    /\ pc' = "done"
    /\ UNCHANGED <<data_, out, i>>

-----------------------------------------------------------------------------
(* fmri.py: simple_convolution *)

\* len(kernel) = 0 makes the pad width (nk - 1, nk) negative: np.pad raises
call_simple_convolution ==
    /\ pc = "idle"
    /\ \E data \in SeqsUpTo(DataVals, MaxLen), kernel \in SeqsUpTo(DataVals, MaxLen) :
          LET nk == Len(kernel)
              nd == Len(data)
          IN  /\ fn' = "simple_convolution"
              /\ args' = [data |-> data, kernel |-> kernel]
              /\ IF nk = 0
                 THEN /\ pc' = "done"
                      /\ ret' = [raised |-> "ValueError", out |-> <<>>]
                      /\ UNCHANGED <<data_, out, i>>
                 ELSE /\ pc' = "loop"
                      /\ data_' = Pad(data, nk - 1, nk)
                      /\ out' = Zeros(nd + nk * 2)
                      /\ i' = 0
                      /\ ret' = [raised |-> "none", out |-> <<>>]

\* the loop body without the reversal of the kernel: a correlation
LoopBodyNoReversal(d, kernel, k) == SumProd(SubSeq(d, k + 1, k + Len(kernel)), kernel)

\* one iteration of `for i in range(len(data_))` that does not break
LoopBody(d, kernel, k) == SumProd(SubSeq(d, k + 1, k + Len(kernel)), Reverse(kernel))

conv_iterate ==
    /\ pc = "loop"
    /\ i < Len(data_)
    /\ ~(i + Len(args.kernel) > Len(data_))
    /\ out' = [out EXCEPT ![i + 1] = LoopBody(data_, args.kernel, i)]
    /\ i' = i + 1
    /\ UNCHANGED <<pc, fn, args, ret, data_>>

\* the loop ends (range exhausted, or the break), the output is clipped and returned
Clip(o, nd) == SubSeq(o, 1, nd)

conv_return ==
    /\ pc = "loop"
    /\ (i >= Len(data_) \/ i + Len(args.kernel) > Len(data_))
    /\ ret' = [raised |-> "none", out |-> Clip(out, Len(args.data))]
    /\ pc' = "done"
    /\ UNCHANGED <<fn, args, data_, out, i>>

-----------------------------------------------------------------------------
(* viz.py: find_squarish_dimensions *)

\* the value put in place of a negative err
Sentinel == 1000

RECURSIVE SqrtSearch(_, _, _)
SqrtSearch(n, lo, hi) ==
    IF lo >= hi THEN lo
    ELSE LET mid == (lo + hi + 1) \div 2
         IN  IF mid * mid <= n THEN SqrtSearch(n, mid, hi) ELSE SqrtSearch(n, lo, mid - 1)

\* np.floor(np.sqrt(n)) and np.ceil(np.sqrt(n)); a float64 square root of an
\* integer below 2^52 is exact when n is a square and lies strictly between the
\* neighbouring integers when it is not
FloorSqrt(n) == SqrtSearch(n, 0, IF n < 2000 THEN n ELSE 2000)
IsSquare(n) == FloorSqrt(n) * FloorSqrt(n) = n
CeilSqrt(n) == IF IsSquare(n) THEN FloorSqrt(n) ELSE FloorSqrt(n) + 1

\* err[err<0] = 1000
MaskNegative(err) == [k \in DOMAIN err |-> IF err[k] < 0 THEN Sentinel ELSE err[k]]

\* np.argmin: the first index holding the minimum
ArgMin(s) == SetMin({k \in DOMAIN s : \A j \in DOMAIN s : s[k] <= s[j]})

find_squarish_dimensions(n) ==
    IF IsSquare(n)
    THEN <<FloorSqrt(n), FloorSqrt(n)>>
    ELSE LET x_poss == <<CeilSqrt(n), CeilSqrt(n)>>
             y_poss == <<CeilSqrt(n), FloorSqrt(n)>>
             n_elements == [k \in 1..2 |-> x_poss[k] * y_poss[k]]
             err == MaskNegative([k \in 1..2 |-> n_elements[k] - n])
             best_idx == ArgMin(err)
         IN  <<x_poss[best_idx], y_poss[best_idx]>>

\* every n with a root up to MaxRoot, and the n = k*k + d around the roots
\* k next to the sentinel, at the offsets where the two candidates change order
NValues == {k * k + d : k \in 1..MaxRoot, d \in 0..(2 * MaxRoot)}
           \cup UNION {{k * k, k * k + 1, k * k + k, k * k + k + 1, k * k + 2 * k} :
                       k \in (Sentinel - 1)..(Sentinel + 1)}

call_find_squarish_dimensions ==
    /\ pc = "idle"
    /\ \E n \in NValues :
          /\ fn' = "find_squarish_dimensions"
          /\ args' = [n |-> n]
          /\ ret' = [raised |-> "none", xy |-> find_squarish_dimensions(n)]
    /\ pc' = "done"
    /\ UNCHANGED <<data_, out, i>>

-----------------------------------------------------------------------------
(* Floating-point values *)

\* A float64 is [k, n, d]: the finite value n / d (k = "fin", d # 0), or one of
\* IEEE 754's "nan", "inf", "ninf".  Finite values are exact rationals: rounding
\* is outside the model.
Fin(n, d) == [k |-> "fin", n |-> n, d |-> d]
NaN == [k |-> "nan", n |-> 0, d |-> 1]
PosInf == [k |-> "inf", n |-> 0, d |-> 1]
NegInf == [k |-> "ninf", n |-> 0, d |-> 1]

\* x / s of two finite values given as integers; NumPy warns and does not
\* raise when s is 0
FDiv(x, s) ==
    IF s # 0 THEN Fin(x, s)
    ELSE IF x = 0 THEN NaN
    ELSE IF x > 0 THEN PosInf ELSE NegInf

FNeg(f) == IF f.k = "inf" THEN NegInf ELSE IF f.k = "ninf" THEN PosInf ELSE f

\* f * x, x an integer
FMulInt(f, x) ==
    IF f.k = "fin" THEN Fin(f.n * x, f.d)
    ELSE IF f.k = "nan" \/ x = 0 THEN NaN
    ELSE IF x > 0 THEN f ELSE FNeg(f)

FAdd(f, g) ==
    IF f.k = "nan" \/ g.k = "nan" THEN NaN
    ELSE IF f.k = "fin" /\ g.k = "fin"
         THEN (IF f.d = g.d THEN Fin(f.n + g.n, f.d)
               ELSE Fin(f.n * g.d + g.n * f.d, f.d * g.d))
    ELSE IF f.k = "fin" THEN g
    ELSE IF g.k = "fin" \/ g.k = f.k THEN f
    ELSE NaN

\* np.sum of a float array (0.0 for an empty one)
RECURSIVE FSum(_)
FSum(s) == IF s = <<>> THEN Fin(0, 1) ELSE FAdd(Head(s), FSum(Tail(s)))

\* whether a float equals 1
IsOne(f) == f.k = "fin" /\ f.n = f.d

-----------------------------------------------------------------------------
(* fmri.py: hrf *)

\* Densities are fixed-point integers: the value times Scale, truncated.
Scale == 1000 * 1000

\* v / e, 1/e taken as 0.3679
DivE(v) == (v \div 10000) * 3679 + ((v % 10000) * 3679) \div 10000

\* v * e^(-e) * y^(k - j + 1) / (j * (j + 1) * ... * k): the factors 1/e and y/j
\* are applied in the order that keeps v near Scale, so that neither the
\* truncation nor the integer width loses the value
RECURSIVE Density(_, _, _, _, _)
Density(v, j, k, y, e) ==
    IF j > k /\ e = 0 THEN v
    ELSE IF e > 0 /\ (v >= Scale \/ j > k) THEN Density(DivE(v), j, k, y, e - 1)
    ELSE Density((v * y) \div j, j + 1, k, y, e)

\* Scale * y^k * e^(-y) / k!, the gamma density of shape k + 1 at y >= 0
GammaDensity(k, y) == Density(Scale, 1, k, y, y)

\* scipy.stats.gamma.pdf(x, a, loc): the third positional argument is loc, so
\* the "dispersion" the source passes there shifts the curve; the density is 0
\* left of loc
GammaPdf(x, a, loc) == IF x - loc < 0 THEN 0 ELSE GammaDensity(a - 1, x - loc)

\* np.arange(start, stop, step), step > 0
Arange(start, stop, step) ==
    LET n == IF stop > start THEN (stop - start + step - 1) \div step ELSE 0
    IN  [k \in 1..n |-> start + (k - 1) * step]

\* a string is the sequence of its character codes
TwoGamma == <<116, 119, 111, 103, 97, 109, 109, 97>>
Boynton == <<98, 111, 121, 110, 116, 111, 110>>

\* str.lower(), on ASCII
Lower(str) == [k \in DOMAIN str |-> IF str[k] \in 65..90 THEN str[k] + 32 ELSE str[k]]

\* the input check without lower()
RecognisedCaseSensitive(shape) == shape \in {TwoGamma, Boynton}

\* the `if not shape.lower() in (...)` input check
Recognised(shape) == Lower(shape) \in {TwoGamma, Boynton}

\* the shape used after the input check
CheckedShape(shape) == IF Recognised(shape) THEN shape ELSE TwoGamma

\* the sample points; t is [none |-> TRUE] for None, else [none |-> FALSE, v |-> vector]
SamplePoints(a) ==
    LET grid == IF a.t.none
                THEN Arange(0, a.onset + 2 * (a.nttp + 1), a.tr)
                ELSE Arange(SetMin(Range(a.t.v)), SetMax(Range(a.t.v)), a.tr)
    IN  [k \in DOMAIN grid |-> grid[k] - a.onset]

\* the `# Create filter` block, before normalisation
Filter(shape, t, a) ==
    IF Lower(shape) = Boynton
    THEN [k \in DOMAIN t |-> GammaPdf(t[k], a.pttp + 1, a.pdsp)]
    ELSE IF Lower(shape) = TwoGamma
    THEN [k \in DOMAIN t |-> GammaPdf(t[k], a.pttp + 1, a.pdsp)
                             - (GammaPdf(t[k], a.nttp + 1, a.ndsp) \div a.pos_neg_ratio)]
    ELSE Zeros(Len(t))

\* h /= np.sum(h)
Normalise(h) == [k \in DOMAIN h |-> FDiv(h[k], SumSeq(h))]

hrf(a) ==
    IF ~a.t.none /\ a.t.v = <<>>
    THEN [raised |-> "ValueError", warned |-> ~Recognised(a.shape), t |-> <<>>, h |-> <<>>]
    ELSE LET t == SamplePoints(a)
         IN  [raised |-> "none",
              warned |-> ~Recognised(a.shape),
              t |-> t,
              h |-> Normalise(Filter(CheckedShape(a.shape), t, a))]

\* "twogamma", "TwoGamma", "boynton", "Boynton", "BOYNTON", "gamma", ""
Shapes == {TwoGamma,
           <<84, 119, 111, 71, 97, 109, 109, 97>>,
           Boynton,
           <<66, 111, 121, 110, 116, 111, 110>>,
           <<66, 79, 89, 78, 84, 79, 78>>,
           <<103, 97, 109, 109, 97>>,
           <<>>}

None == [none |-> TRUE, v |-> <<>>]
TArgs == {None} \cup {[none |-> FALSE, v |-> v] : v \in {<<>>, <<0, 1>>, <<6, 2, 0>>}}

\* onset covers its documented range [-5 .. 5]
HrfArgs == [shape : Shapes, tr : {1, 2}, pttp : {2, 5}, nttp : {1, 2, 15},
            pos_neg_ratio : {1, 6}, onset : {-5, -1, 0, 1, 5},
            pdsp : {1}, ndsp : {1}, t : TArgs]

call_hrf ==
    /\ pc = "idle"
    /\ \E a \in HrfArgs :
          /\ fn' = "hrf"
          /\ args' = a
          /\ ret' = hrf(a)
    /\ pc' = "done"
    /\ UNCHANGED <<data_, out, i>>

-----------------------------------------------------------------------------
(* fmri.py: apply_hrf *)

\* column c (0-based) of a 2-D array: one row of X.T
Column(X, c) == [r \in 1..X.shape[1] |-> X.flat[(r - 1) * X.shape[2] + c + 1]]

\* np.convolve(x, h, mode='full'), x integers and h floats, neither empty:
\* sample n (0-based) is the sum of h[m] * x[n - m] over the m where both exist
ConvolveFull(x, h) ==
    [n \in 1..(Len(x) + Len(h) - 1) |->
        LET first == Max2(1, n + 1 - Len(x))
            last == Min2(n, Len(h))
        IN  FSum([j \in 1..(last - first + 1) |->
                     FMulInt(h[first + j - 1], x[n + 1 - (first + j - 1)])])]

\* np.convolve(x, hrf_, mode='same')[:len(x)]: 'same' takes the max(N, M)
\* samples at the centre of the full convolution, which start (min(N, M) - 1) // 2
\* samples in
ConvolveColumnSame(x, h) ==
    [n \in 1..Len(x) |-> ConvolveFull(x, h)[(Min2(Len(x), Len(h)) - 1) \div 2 + n]]

\* np.convolve(x, hrf_, mode='full')[:len(x)]
ConvolveColumn(x, h) == [n \in 1..Len(x) |-> ConvolveFull(x, h)[n]]

\* np.array(list of cols arrays of rows samples each).T, as [shape, flat]
Transpose(list, rows, cols) ==
    [shape |-> <<rows, cols>>,
     flat |-> [q \in 1..(rows * cols) |-> list[((q - 1) % cols) + 1][(q - 1) \div cols + 1]]]

\* np.array([np.convolve(x, hrf_, mode='full')[:len(x)] for x in X.T]).T:
\* no column gives np.array([]), the 1-D array of shape (0,); np.convolve raises
\* ValueError on an empty array
ConvolveColumns(X, hrf_) ==
    LET rows == X.shape[1]
        cols == X.shape[2]
    IN  IF cols = 0 THEN [raised |-> "none", hrf_ |-> hrf_, Xh |-> Empty1D]
        ELSE IF rows = 0 \/ hrf_ = <<>>
        THEN [raised |-> "ValueError", hrf_ |-> hrf_, Xh |-> NoArray]
        ELSE [raised |-> "none",
              hrf_ |-> hrf_,
              Xh |-> Transpose([c \in 1..cols |-> ConvolveColumn(Column(X, c - 1), hrf_)],
                               rows, cols)]

\* the outcome keeps the kernel, the local hrf_, beside the returned Xh
apply_hrf(X, a) ==
    IF hrf(a).raised # "none"
    THEN [raised |-> hrf(a).raised, hrf_ |-> <<>>, Xh |-> NoArray]
    ELSE ConvolveColumns(X, hrf(a).h)

\* the arguments of hrf when the caller gives none but tr
Defaults(tr) == [shape |-> TwoGamma, tr |-> tr, pttp |-> 5, nttp |-> 15,
                 pos_neg_ratio |-> 6, onset |-> 0, pdsp |-> 1, ndsp |-> 1, t |-> None]

\* design matrices of 0 and 1: at each time point at most one condition is on
\* (row r has its 1 in column on[r], or none when on[r] = 0)
Designs == UNION {{[shape |-> <<r, c>>,
                    flat |-> [q \in 1..(r * c) |->
                                 IF on[(q - 1) \div c + 1] = ((q - 1) % c) + 1 THEN 1 ELSE 0]] :
                   on \in [1..r -> 0..c]} :
                  <<r, c>> \in (0..MaxRows) \X (0..MaxCols)}

\* the keyword arguments apply_hrf passes on, with apply_hrf's own tr: the
\* defaults (a kernel of 16 samples, of 32 with tr=1), and settings that give a
\* kernel of 3 samples, of 1 sample, of nan (the two curves cancel) and of none
ApplyArgs == {Defaults(2),
              Defaults(1),
              [Defaults(2) EXCEPT !.pttp = 1, !.nttp = 2],
              [Defaults(2) EXCEPT !.pttp = 1, !.nttp = 2, !.onset = -5],
              [Defaults(2) EXCEPT !.pttp = 2, !.nttp = 2, !.pos_neg_ratio = 1],
              [Defaults(2) EXCEPT !.nttp = 1, !.onset = -5]}

call_apply_hrf ==
    /\ pc = "idle"
    /\ \E X \in Designs, a \in ApplyArgs :
          /\ fn' = "apply_hrf"
          /\ args' = [X |-> X, kwargs |-> a]
          /\ ret' = apply_hrf(X, a)
    /\ pc' = "done"
    /\ UNCHANGED <<data_, out, i>>

-----------------------------------------------------------------------------

Init ==
    /\ pc = "idle"
    /\ fn = "none"
    /\ args = [n |-> 0]
    /\ ret = [raised |-> "none"]
    /\ data_ = <<>>
    /\ out = <<>>
    /\ i = 0

Next ==
    \/ call_unmask
    \/ call_simple_convolution
    \/ conv_iterate
    \/ conv_return
    \/ call_find_squarish_dimensions
    \/ call_hrf
    \/ call_apply_hrf

Spec == Init /\ [][Next]_vars

-----------------------------------------------------------------------------
(* Properties *)

Returned(f) == fn = f /\ pc = "done"

\* C1: simple_convolution(data, kernel) returns exactly len(data) samples for
\* every data (the empty one included) and every kernel of at least one
\* sample, and apply_hrf(X) returns a matrix with as many rows and as many
\* columns as X for every 2-D design matrix X.
C1_OutputLengthEqualsInput ==
    /\ (Returned("simple_convolution") /\ Len(args.kernel) >= 1)
          => (ret.raised = "none" /\ Len(ret.out) = Len(args.data))
    /\ (Returned("apply_hrf") /\ args.kwargs = Defaults(2))
          => (ret.raised = "none" /\ ret.Xh.shape = args.X.shape)

\* sample idx (0-based) of the discrete convolution of data with kernel
ConvolutionSample(data, kernel, idx) ==
    SumSeq([j \in 1..(Min2(idx, Len(kernel) - 1) + 1) |->
               kernel[j] * data[idx - (j - 1) + 1]])

AsFloats(s) == [k \in DOMAIN s |-> Fin(s[k], 1)]

\* C2: every one of the len(data) samples simple_convolution returns is the
\* standard discrete convolution, out[i] = sum over j in 0..min(i, nk-1) of
\* kernel[j] * data[i-j], which is also the sample the library's full-mode
\* convolution truncated to len(data) holds; while the loop runs, the samples
\* below the loop index already hold these values, so none is skipped or
\* changed by the padding, the kernel reversal or the break.
C2_TruncatedConvolution ==
    /\ (fn = "simple_convolution" /\ pc = "loop")
          => \A idx \in 0..(Min2(i, Len(args.data)) - 1) :
                out[idx + 1] = ConvolutionSample(args.data, args.kernel, idx)
    /\ (Returned("simple_convolution") /\ ret.raised = "none")
          => /\ \A idx \in 0..(Len(args.data) - 1) :
                   ret.out[idx + 1] = ConvolutionSample(args.data, args.kernel, idx)
             /\ Len(args.data) >= 1
                   => AsFloats(ret.out) = ConvolveColumn(args.data, AsFloats(args.kernel))

C2_Witness ==
    /\ Returned("simple_convolution")
    /\ args.data = <<1, 2, 1>>
    /\ args.kernel = <<1, 2>>
    /\ ret.out = <<1, 4, 5>>

\* C3: for every accepted parameter setting (shape 'twogamma' or 'boynton',
\* whatever the other arguments), the samples of the kernel hrf returns sum to 1.
C3_KernelSumsToOne ==
    (Returned("hrf") /\ Recognised(args.shape) /\ ret.raised = "none")
        => IsOne(FSum(ret.h))

\* volume v (0-based) of an unmasked array whose volumes have n cells each
Volume(br, v, n) == SubSeq(br.flat, v * n + 1, (v + 1) * n)

\* a volume holds bg_value where the mask is False and, where it is True, the
\* row's values in mask order
InverseOfMasking(vol, mask, row, bg_value) ==
    /\ Len(vol) = Len(mask.flat)
    /\ \A k \in 1..Len(mask.flat) : ~mask.flat[k] => vol[k] = bg_value
    /\ Masked(vol, mask.flat) = row

\* C4: for 1-D data as long as the mask has True cells, unmask returns an array
\* of the mask's shape holding bg_value where the mask is False and the data in
\* mask order where it is True, so that unmask(data, mask)[mask] == data; for
\* 2-D data of shape (n, number of True cells) the result has shape
\* (n,) + mask.shape and the same holds of volume r and row r of the data.
C4_UnmaskInvertsMasking ==
    Returned("unmask") =>
        LET cnt == CountTrue(args.mask.flat, Len(args.mask.flat))
            data == args.data
        IN  /\ (Len(data.shape) = 1 /\ data.shape[1] = cnt)
                  => /\ ret.raised = "none"
                     /\ ret.br.shape = args.mask.shape
                     /\ InverseOfMasking(ret.br.flat, args.mask, data.flat, args.bg_value)
            /\ (Len(data.shape) = 2 /\ data.shape[2] = cnt)
                  => /\ ret.raised = "none"
                     /\ ret.br.shape = <<data.shape[1]>> \o args.mask.shape
                     /\ Len(ret.br.flat) = data.shape[1] * Len(args.mask.flat)
                     /\ \A r \in 0..(data.shape[1] - 1) :
                           InverseOfMasking(Volume(ret.br, r, Len(args.mask.flat)),
                                            args.mask, RowOf(data, r), args.bg_value)

C4_Witness ==
    /\ Returned("unmask")
    /\ args.data = [shape |-> <<2, 2>>, flat |-> <<1, 2, 2, 1>>]
    /\ args.mask = [shape |-> <<2, 2>>, flat |-> <<FALSE, TRUE, FALSE, TRUE>>]
    /\ args.bg_value = 9
    /\ ret.br = [shape |-> <<2, 2, 2>>, flat |-> <<9, 1, 9, 2, 9, 2, 9, 1>>]

\* C5: for every positive n the grid find_squarish_dimensions returns has room
\* for n elements, x * y >= n; for a non-square n the candidate chosen is the
\* one with the fewest cells among the candidates with at least n cells.
C5_GridHasRoom ==
    Returned("find_squarish_dimensions") =>
        LET n == args.n
            x == ret.xy[1]
            y == ret.xy[2]
            candidates == {<<CeilSqrt(n), CeilSqrt(n)>>, <<CeilSqrt(n), FloorSqrt(n)>>}
        IN  /\ x * y >= n
            /\ ~IsSquare(n)
                  => /\ ret.xy \in candidates
                     /\ \A c \in candidates : c[1] * c[2] >= n => x * y <= c[1] * c[2]

\* C6: called with t=None, hrf returns sample points that all lie in the
\* documented default range [0, onset + 2 * (nttp + 1)], consecutive ones
\* exactly tr apart.
C6_DefaultSamplingRange ==
    (Returned("hrf") /\ args.t.none /\ ret.raised = "none")
        => /\ \A k \in DOMAIN ret.t :
                 0 <= ret.t[k] /\ ret.t[k] <= args.onset + 2 * (args.nttp + 1)
           /\ \A k \in 1..(Len(ret.t) - 1) : ret.t[k + 1] - ret.t[k] = args.tr

\* cell (r, c) (0-based) of a 2-D array
Cell(A, r, c) == A.flat[r * A.shape[2] + c + 1]

\* sum over j <= r of h[j] * X[r - j, c]; the kernel has no sample past nk - 1
CausalSum(X, h, r, c) ==
    FSum([j \in 1..(Min2(r, Len(h) - 1) + 1) |->
             FMulInt(h[j], Cell(X, r - (j - 1), c))])

\* C7: in the matrix apply_hrf returns, cell (r, c) is the sum over j <= r of
\* hrf[j] * X[r-j, c]; changing a cell of X in another column, or in a later
\* row, leaves it as it was.
C7_ColumnwiseAndCausal ==
    (Returned("apply_hrf") /\ ret.raised = "none" /\ args.X.shape[2] >= 1) =>
        LET X == args.X
            rows == X.shape[1]
            cols == X.shape[2]
        IN  /\ ret.hrf_ = hrf(args.kwargs).h
            /\ \A r \in 0..(rows - 1), c \in 0..(cols - 1) :
                  Cell(ret.Xh, r, c) = CausalSum(X, ret.hrf_, r, c)
            /\ \A q \in 1..(rows * cols), v \in {0, 1} :
                  \A Xh2 \in {ConvolveColumns([X EXCEPT !.flat[q] = v], ret.hrf_).Xh} :
                     \A r \in 0..(rows - 1), c \in 0..(cols - 1) :
                        (c # (q - 1) % cols \/ r < (q - 1) \div cols)
                            => Cell(Xh2, r, c) = Cell(ret.Xh, r, c)

C7_Witness ==
    /\ Returned("apply_hrf")
    /\ args.kwargs = Defaults(2)
    /\ args.X = [shape |-> <<3, 2>>, flat |-> <<1, 0, 0, 1, 0, 0>>]
    /\ ret.raised = "none"
    /\ ret.Xh.shape = <<3, 2>>
    /\ Len(ret.hrf_) > 3
    /\ Cell(ret.Xh, 1, 0).k = "fin" /\ Cell(ret.Xh, 1, 0).n > 0
    /\ Cell(ret.Xh, 2, 1) = Cell(ret.Xh, 1, 0)
    /\ Cell(ret.Xh, 0, 1) = Fin(0, ret.hrf_[1].d)

\* C8: a shape that is neither 'twogamma' nor 'boynton' in any letter case
\* makes hrf warn and go on as with shape='twogamma': it raises nothing that
\* call does not raise and returns the same (t, h); 'boynton' in any letter
\* case is taken without a warning and gives the single-gamma curve.
C8_UnrecognisedShapeFallsBack ==
    Returned("hrf") =>
        LET same == hrf([args EXCEPT !.shape = TwoGamma])
        IN  /\ Lower(args.shape) \notin {TwoGamma, Boynton}
                  => /\ ret.warned
                     /\ ret.raised = same.raised
                     /\ ret.t = same.t
                     /\ ret.h = same.h
            /\ (Lower(args.shape) = Boynton /\ ret.raised = "none")
                  => /\ ~ret.warned
                     /\ ret.h = Normalise([k \in DOMAIN ret.t |->
                                   GammaPdf(ret.t[k], args.pttp + 1, args.pdsp)])

C8_Witness ==
    /\ Returned("hrf")
    /\ args.shape = <<103, 97, 109, 109, 97>>
    /\ args.t.none
    /\ ret.warned
    /\ ret.raised = "none"
    /\ Len(ret.h) > 1
    /\ IsOne(FSum(ret.h))

\* C9: unmask raises its exception exactly when the data has a number of
\* dimensions other than 1 or 2 (0-dimensional scalars included), and then
\* produces no output volume.
C9_UnmaskRejectsOtherDimensions ==
    Returned("unmask") =>
        /\ ret.raised = "Exception" <=> Len(args.data.shape) \notin {1, 2}
        /\ ret.raised = "Exception" => ret.br = NoArray
        /\ Len(args.data.shape) \in {1, 2} /\ ret.raised = "none" => ret.br # NoArray

C9_Witness ==
    /\ Returned("unmask")
    /\ args.data.shape = <<>>
    /\ ret.raised = "Exception"
    /\ ret.br = NoArray

=============================================================================
